---- MODULE Spec2Model ----
(***************************************************************************)
(* A model of the symbolic-algebra engine of skytos/symbolic.              *)
(*                                                                         *)
(* src/symbolic.go is the engine with simplification (Constant, Variable,  *)
(* Sum, Product, Power); src/unnamed/part_000 holds two earlier engines    *)
(* with Sin and Cos and without simplify.  An expression is a record with  *)
(* a `kind` field, one kind per Go struct type.  A float64 is a record     *)
(* [n, d]: the rational n/d in lowest terms with d > 0, and the IEEE-754   *)
(* specials +0 = 0/1, -0 = 0/-1, +Inf = 1/0, -Inf = -1/0, NaN = 0/0.       *)
(* Arithmetic is exact on the rationals; the values the bounded model      *)
(* reaches are rationals of small magnitude, on which the compared         *)
(* computations perform the same operations in the same order.             *)
(***************************************************************************)
EXTENDS Integers, Sequences, FiniteSets, TLC

VARIABLES e, vals, op, a1, a2, ret

vars == <<e, vals, op, a1, a2, ret>>

(***************************************************************************)
(* Bounds.                                                                 *)
(***************************************************************************)
\* Largest number of nodes of an expression the client builds under Spec.
MaxSize == 5
\* Largest exponent n of the trees Power(x, n) that NumSpec starts from.
MaxN == 4
\* Binding values range over -MaxC .. MaxC under NumSpec.
MaxC == 2

Names == {"x", "y"}

(***************************************************************************)
(* float64                                                                 *)
(***************************************************************************)
NaN == [n |-> 0, d |-> 0]
PInf == [n |-> 1, d |-> 0]
NInf == [n |-> -1, d |-> 0]
PZero == [n |-> 0, d |-> 1]
NZero == [n |-> 0, d |-> -1]
\* A result the model does not compute: a positive base raised to a
\* non-integer exponent (2^0.5), a sine or cosine away from 0.  It compares
\* equal to nothing, every operation propagates it, and no arithmetic tree of
\* the bounded model evaluates to it (AllComputed, NumAllComputed below).
Unrepresented == [n |-> 0, d |-> 2]

Abs(i) == IF i < 0 THEN -i ELSE i

RECURSIVE Gcd(_, _)
Gcd(i, j) == IF j = 0 THEN i ELSE Gcd(j, i % j)

\* The float n/d for integers n and d > 0.
Ratio(n, d) ==
    IF n = 0 THEN PZero
    ELSE LET g == Gcd(Abs(n), d) IN [n |-> n \div g, d |-> d \div g]

\* The float of an integer literal.
F(i) == Ratio(i, 1)

IsNaN(v) == v = NaN
IsInf(v) == v.d = 0 /\ v.n # 0
IsZero(v) == v.n = 0 /\ v.d \in {1, -1}
IsFinite(v) == v.d > 0 \/ IsZero(v)
IsRational(v) == v # Unrepresented
\* Signbit: TRUE for negative values and for -0.
Signbit(v) == v.n < 0 \/ v = NZero
\* v < 0 and v > 0 as Go compares floats (both FALSE for zeros and NaN).
Neg(v) == v.n < 0
Pos(v) == v.n > 0
IsOddInt(v) == v.d = 1 /\ v.n % 2 = 1
IsInteger(v) == v.d = 1

\* Go's == on float64: NaN equals nothing, -0 equals +0.
FloatEq(v, w) ==
    /\ ~IsNaN(v) /\ ~IsNaN(w)
    /\ IsRational(v) /\ IsRational(w)
    /\ \/ v = w
       \/ IsZero(v) /\ IsZero(w)

\* v + w (IEEE-754, round to nearest).
FAdd(v, w) ==
    IF IsNaN(v) \/ IsNaN(w) THEN NaN
    ELSE IF ~IsRational(v) \/ ~IsRational(w) THEN Unrepresented
    ELSE IF IsInf(v) /\ IsInf(w) THEN (IF v = w THEN v ELSE NaN)
    ELSE IF IsInf(v) THEN v
    ELSE IF IsInf(w) THEN w
    ELSE IF IsZero(v) /\ IsZero(w) THEN (IF v = NZero /\ w = NZero THEN NZero ELSE PZero)
    ELSE IF IsZero(v) THEN w
    ELSE IF IsZero(w) THEN v
    ELSE Ratio(v.n * w.d + w.n * v.d, v.d * w.d)

\* v * w (IEEE-754).
FMul(v, w) ==
    IF IsNaN(v) \/ IsNaN(w) THEN NaN
    ELSE IF ~IsRational(v) \/ ~IsRational(w) THEN Unrepresented
    ELSE IF (IsInf(v) /\ IsZero(w)) \/ (IsZero(v) /\ IsInf(w)) THEN NaN
    ELSE LET neg == Signbit(v) # Signbit(w) IN
         IF IsInf(v) \/ IsInf(w) THEN (IF neg THEN NInf ELSE PInf)
         ELSE IF IsZero(v) \/ IsZero(w) THEN (IF neg THEN NZero ELSE PZero)
         ELSE Ratio(v.n * w.n, v.d * w.d)

RECURSIVE IntPow(_, _)
IntPow(b, k) == IF k = 0 THEN 1 ELSE b * IntPow(b, k - 1)

\* x^k for a finite nonzero x and a nonzero integer k.
RatPow(x, k) ==
    IF k > 0 THEN Ratio(IntPow(x.n, k), IntPow(x.d, k))
    ELSE LET num == IntPow(x.d, -k)
             den == IntPow(x.n, -k)
         IN  IF den < 0 THEN Ratio(-num, -den) ELSE Ratio(num, den)

\* math.Pow(±0, y) for y not 0, 1 or NaN.
PowOfZero(x, y) ==
    IF Neg(y)
    THEN (IF Signbit(x) /\ IsOddInt(y) THEN NInf ELSE PInf)
    ELSE (IF Signbit(x) /\ IsOddInt(y) THEN x ELSE PZero)

\* math.Pow, with the special cases in the order the Go library takes them.
Pow(x, y) ==
    IF IsZero(y) \/ x = F(1) THEN F(1)
    ELSE IF y = F(1) THEN x
    ELSE IF IsNaN(x) \/ IsNaN(y) THEN NaN
    ELSE IF ~IsRational(x) \/ ~IsRational(y) THEN Unrepresented
    ELSE IF IsZero(x) THEN PowOfZero(x, y)
    ELSE IF IsInf(y) THEN
        (IF x = F(-1) THEN F(1)
         ELSE IF (IsFinite(x) /\ Abs(x.n) < x.d) = (y = PInf) THEN PZero
         ELSE PInf)
    ELSE IF x = NInf THEN
        (IF y = F(-1) THEN NZero ELSE PowOfZero(NZero, [n |-> -y.n, d |-> y.d]))
    ELSE IF x = PInf THEN (IF Neg(y) THEN PZero ELSE PInf)
    ELSE IF IsInteger(y) THEN RatPow(x, y.n)
    ELSE IF Neg(x) THEN NaN
    ELSE Unrepresented

\* math.Sin and math.Cos where the result is rational.
Sin(v) ==
    IF IsNaN(v) \/ IsInf(v) THEN NaN
    ELSE IF IsZero(v) THEN v
    ELSE Unrepresented

Cos(v) ==
    IF IsNaN(v) \/ IsInf(v) THEN NaN
    ELSE IF IsZero(v) THEN F(1)
    ELSE Unrepresented

(***************************************************************************)
(* fmt's %v of a float64: strconv's 'g' format with the shortest digits    *)
(* that identify the value.  Computed for the specials and for the dyadic  *)
(* rationals k/2^j with j <= 9 and 1e-4 <= |v| < 1e6: float64 holds them   *)
(* exactly, their decimal expansion has at most 15 digits, so it is the    *)
(* shortest one, and 'g' prints it in fixed notation.  Other values, which *)
(* the bounded model does not render, give "?".                            *)
(***************************************************************************)
RECURSIVE FracDigits(_, _)
FracDigits(r, d) ==
    IF r = 0 THEN ""
    ELSE ToString((r * 10) \div d) \o FracDigits((r * 10) % d, d)

FormatFloat(v) ==
    IF IsNaN(v) THEN "NaN"
    ELSE IF v = PInf THEN "+Inf"
    ELSE IF v = NInf THEN "-Inf"
    ELSE IF v = PZero THEN "0"
    ELSE IF v = NZero THEN "-0"
    ELSE IF v.d > 0 /\ 512 % v.d = 0 /\ Abs(v.n) < 1000000 * v.d
                   /\ Abs(v.n) * 10000 >= v.d
    THEN LET m == Abs(v.n)
             digits == ToString(m \div v.d)
                       \o (IF m % v.d = 0 THEN "" ELSE "." \o FracDigits(m % v.d, v.d))
         IN  IF v.n < 0 THEN "-" \o digits ELSE digits
    ELSE "?"

(***************************************************************************)
(* Expressions: the struct types of the variant set.                       *)
(***************************************************************************)
constant(value) == [kind |-> "constant", value |-> value]
variable(name) == [kind |-> "variable", name |-> name]
sum(a, b) == [kind |-> "sum", a |-> a, b |-> b]
product(a, b) == [kind |-> "product", a |-> a, b |-> b]
power(base, exponent) == [kind |-> "power", base |-> base, exponent |-> exponent]
sin(value) == [kind |-> "sin", value |-> value]
cos(value) == [kind |-> "cos", value |-> value]

one == constant(F(1))
negativeOne == constant(F(-1))
zero == constant(F(0))
ZERO == constant(F(0))
ONE == constant(F(1))

Binary == {"sum", "product", "power"}
Unary == {"sin", "cos"}
\* The first operand of a binary node, or the operand of a unary one.
Left(ex) == IF ex.kind = "power" THEN ex.base ELSE IF ex.kind \in Unary THEN ex.value ELSE ex.a
Right(ex) == IF ex.kind = "power" THEN ex.exponent ELSE ex.b

\* Go's == between an expression held in the interface and a constant:
\* same dynamic type, and the float64 fields equal under ==.
InterfaceEq(ex, c) == ex.kind = "constant" /\ FloatEq(ex.value, c.value)

RECURSIVE Size(_)
Size(ex) ==
    IF ex.kind \in Binary THEN 1 + Size(Left(ex)) + Size(Right(ex))
    ELSE IF ex.kind \in Unary THEN 1 + Size(Left(ex))
    ELSE 1

\* Trees of the five arithmetic variants only (the variant set of symbolic.go).
RECURSIVE IsArith(_)
IsArith(ex) ==
    IF ex.kind \in Binary THEN IsArith(Left(ex)) /\ IsArith(Right(ex))
    ELSE ex.kind \in {"constant", "variable"}

(***************************************************************************)
(* The builder layer.                                                      *)
(***************************************************************************)
negate(ex) == product(ex, negativeOne)

invert(ex) == power(ex, negativeOne)

add(e1, e2) == sum(e1, e2)

sub(e1, e2) == sum(e1, negate(e2))

mul(e1, e2) == product(e1, e2)

\* div multiplying by the divisor instead of its inverse.
div_noInvert(e1, e2) == product(e1, e2)

div(e1, e2) == product(e1, invert(e2))

pow(e1, e2) == power(e1, e2)

(***************************************************************************)
(* derivative: one rule per struct type.  The d-parameters are the         *)
(* derivatives of the children, which the Go methods compute by the        *)
(* recursive calls.                                                        *)
(***************************************************************************)
constant_derivative(ex, v) == zero

variable_derivative(ex, v) == IF v.name = ex.name THEN one ELSE zero

sum_derivative(ex, da, db) == sum(da, db)

product_derivative(ex, da, db) == sum(product(da, ex.b), product(ex.a, db))

\* power.derivative leaving the exponent as it is (no Sum(exponent, -1)).
power_derivative_sameExponent(ex, dbase) ==
    product(ex.exponent, product(dbase, power(ex.base, ex.exponent)))

power_derivative(ex, dbase) ==
    product(ex.exponent,
            product(dbase, power(ex.base, sum(ex.exponent, negativeOne))))

sin_derivative(ex, dvalue) == product(dvalue, cos(ex.value))

\* cos.derivative without the negation.
cos_derivative_unsigned(ex, dvalue) == product(dvalue, sin(ex.value))

cos_derivative(ex, dvalue) == product(negate(dvalue), sin(ex.value))

RECURSIVE derivative(_, _)
derivative(ex, v) ==
    CASE ex.kind = "constant" -> constant_derivative(ex, v)
      [] ex.kind = "variable" -> variable_derivative(ex, v)
      [] ex.kind = "sum" -> sum_derivative(ex, derivative(ex.a, v), derivative(ex.b, v))
      [] ex.kind = "product" ->
            product_derivative(ex, derivative(ex.a, v), derivative(ex.b, v))
      [] ex.kind = "power" -> power_derivative(ex, derivative(ex.base, v))
      [] ex.kind = "sin" -> sin_derivative(ex, derivative(ex.value, v))
      [] ex.kind = "cos" -> cos_derivative(ex, derivative(ex.value, v))

(***************************************************************************)
(* evaluate.  vs is the binding context, a function from the bound names.  *)
(***************************************************************************)
constant_evaluate(ex, vs) == ex.value

\* A lookup that yields NaN for an absent key.
variable_evaluate_strict(ex, vs) == IF ex.name \in DOMAIN vs THEN vs[ex.name] ELSE NaN

\* vals[e.name]: a Go map yields the zero value 0.0 for an absent key.
variable_evaluate(ex, vs) == IF ex.name \in DOMAIN vs THEN vs[ex.name] ELSE F(0)

RECURSIVE evaluate(_, _)
evaluate(ex, vs) ==
    CASE ex.kind = "constant" -> constant_evaluate(ex, vs)
      [] ex.kind = "variable" -> variable_evaluate(ex, vs)
      [] ex.kind = "sum" -> FAdd(evaluate(ex.a, vs), evaluate(ex.b, vs))
      [] ex.kind = "product" -> FMul(evaluate(ex.a, vs), evaluate(ex.b, vs))
      [] ex.kind = "power" -> Pow(evaluate(ex.base, vs), evaluate(ex.exponent, vs))
      [] ex.kind = "sin" -> Sin(evaluate(ex.value, vs))
      [] ex.kind = "cos" -> Cos(evaluate(ex.value, vs))

(***************************************************************************)
(* simplify (symbolic.go only).  a, b, base and exponent are the           *)
(* simplified children, which the Go methods compute first.                *)
(***************************************************************************)
\* sum.simplify without the test of the right operand against ZERO.
sum_simplify_noRightZero(a, b) ==
    IF InterfaceEq(a, ZERO) THEN b
    ELSE IF a.kind = "constant" /\ b.kind = "constant"
         THEN constant(FAdd(a.value, b.value))
         ELSE sum(a, b)

\* sum.simplify rebuilding the node with its operands exchanged.
sum_simplify_swapped(a, b) ==
    IF InterfaceEq(a, ZERO) THEN b
    ELSE IF InterfaceEq(b, ZERO) THEN a
    ELSE IF a.kind = "constant" /\ b.kind = "constant"
         THEN constant(FAdd(a.value, b.value))
         ELSE sum(b, a)

sum_simplify(a, b) ==
    IF InterfaceEq(a, ZERO) THEN b
    ELSE IF InterfaceEq(b, ZERO) THEN a
    ELSE IF a.kind = "constant" /\ b.kind = "constant"
         THEN constant(FAdd(a.value, b.value))
         ELSE sum(a, b)

\* product.simplify without the test of the right operand against ZERO.
product_simplify_noRightZero(a, b) ==
    IF InterfaceEq(a, ZERO) THEN a
    ELSE IF InterfaceEq(a, ONE) THEN b
    ELSE IF InterfaceEq(b, ONE) THEN a
    ELSE IF a.kind = "constant" /\ b.kind = "constant"
         THEN constant(FMul(a.value, b.value))
         ELSE product(a, b)

\* product.simplify returning the identity operand instead of the other one.
product_simplify_keepsOne(a, b) ==
    IF InterfaceEq(a, ZERO) THEN a
    ELSE IF InterfaceEq(b, ZERO) THEN b
    ELSE IF InterfaceEq(a, ONE) THEN a
    ELSE IF InterfaceEq(b, ONE) THEN b
    ELSE IF a.kind = "constant" /\ b.kind = "constant"
         THEN constant(FMul(a.value, b.value))
         ELSE product(a, b)

product_simplify(a, b) ==
    IF InterfaceEq(a, ZERO) THEN a
    ELSE IF InterfaceEq(b, ZERO) THEN b
    ELSE IF InterfaceEq(a, ONE) THEN b
    ELSE IF InterfaceEq(b, ONE) THEN a
    ELSE IF a.kind = "constant" /\ b.kind = "constant"
         THEN constant(FMul(a.value, b.value))
         ELSE product(a, b)

\* power.simplify testing the base before the exponent.
power_simplify_baseFirst(base, exponent) ==
    IF InterfaceEq(base, ZERO) \/ InterfaceEq(base, ONE) THEN base
    ELSE IF InterfaceEq(exponent, ZERO) THEN ONE
    ELSE IF InterfaceEq(exponent, ONE) THEN base
    ELSE IF base.kind = "constant" /\ exponent.kind = "constant"
         THEN constant(Pow(base.value, exponent.value))
         ELSE power(base, exponent)

power_simplify(base, exponent) ==
    IF InterfaceEq(exponent, ZERO) THEN ONE
    ELSE IF InterfaceEq(exponent, ONE) THEN base
    ELSE IF InterfaceEq(base, ZERO) \/ InterfaceEq(base, ONE) THEN base
    ELSE IF base.kind = "constant" /\ exponent.kind = "constant"
         THEN constant(Pow(base.value, exponent.value))
         ELSE power(base, exponent)

RECURSIVE simplify(_)
simplify(ex) ==
    CASE ex.kind = "constant" -> ex
      [] ex.kind = "variable" -> ex
      [] ex.kind = "sum" -> sum_simplify(simplify(ex.a), simplify(ex.b))
      [] ex.kind = "product" -> product_simplify(simplify(ex.a), simplify(ex.b))
      [] ex.kind = "power" -> power_simplify(simplify(ex.base), simplify(ex.exponent))

(***************************************************************************)
(* Rendering.  String is the Stringer method of symbolic.go and of the     *)
(* first engine of part_000: fmt's %v calls it on the operands.  The       *)
(* second engine of part_000 names the method string, which fmt does not   *)
(* call: there %v prints an operand as a Go struct value, {fields}.        *)
(***************************************************************************)
RECURSIVE String(_)
\* String with the format strings of the second engine of part_000.
String_noBlanks(ex) ==
    CASE ex.kind = "constant" -> FormatFloat(ex.value)
      [] ex.kind = "variable" -> ex.name
      [] ex.kind = "sum" -> "(" \o String(ex.a) \o "+" \o String(ex.b) \o ")"
      [] ex.kind = "product" -> "(" \o String(ex.a) \o "*" \o String(ex.b) \o ")"
      [] ex.kind = "power" -> String(ex.base) \o "^" \o String(ex.exponent)
      [] ex.kind = "sin" -> "sin(" \o String(ex.value) \o ")"
      [] ex.kind = "cos" -> "cos(" \o String(ex.value) \o ")"

String(ex) ==
    CASE ex.kind = "constant" -> FormatFloat(ex.value)
      [] ex.kind = "variable" -> ex.name
      [] ex.kind = "sum" -> "(" \o String(ex.a) \o " + " \o String(ex.b) \o ")"
      [] ex.kind = "product" -> "(" \o String(ex.a) \o " * " \o String(ex.b) \o ")"
      [] ex.kind = "power" -> String(ex.base) \o "^" \o String(ex.exponent)
      [] ex.kind = "sin" -> "sin(" \o String(ex.value) \o ")"
      [] ex.kind = "cos" -> "cos(" \o String(ex.value) \o ")"

\* fmt's %v of a struct value without a String method.
RECURSIVE GoStruct(_)
GoStruct(ex) ==
    CASE ex.kind = "constant" -> "{" \o FormatFloat(ex.value) \o "}"
      [] ex.kind = "variable" -> "{" \o ex.name \o "}"
      [] ex.kind \in Binary -> "{" \o GoStruct(Left(ex)) \o " " \o GoStruct(Right(ex)) \o "}"
      [] ex.kind \in Unary -> "{" \o GoStruct(Left(ex)) \o "}"

string(ex) ==
    CASE ex.kind = "constant" -> FormatFloat(ex.value)
      [] ex.kind = "variable" -> ex.name
      [] ex.kind = "sum" -> "(" \o GoStruct(ex.a) \o "+" \o GoStruct(ex.b) \o ")"
      [] ex.kind = "product" -> "(" \o GoStruct(ex.a) \o "*" \o GoStruct(ex.b) \o ")"
      [] ex.kind = "power" -> GoStruct(ex.base) \o "^" \o GoStruct(ex.exponent)
      [] ex.kind = "sin" -> "sin(" \o GoStruct(ex.value) \o ")"
      [] ex.kind = "cos" -> "cos(" \o GoStruct(ex.value) \o ")"

(***************************************************************************)
(* The client: the expressions it builds and the calls it makes.           *)
(*   e     the expression the client holds                                 *)
(*   vals  the binding context (a Go map from names to float64)            *)
(*   op    the function or method called last                              *)
(*   a1    its receiver or first argument, a2 its second argument          *)
(*   ret   the value it returned                                           *)
(***************************************************************************)
Nil == [kind |-> "nil"]

\* The literals the client writes: constants -1, 0, 1 and the variables.
Lits == {-1, 0, 1}
Leaves == {constant(F(i)) : i \in Lits} \cup {variable(nm) : nm \in Names}

\* All expressions of exactly s nodes over the leaves.
RECURSIVE TreesOfSize(_)
TreesOfSize(s) ==
    IF s = 1 THEN Leaves
    ELSE UNION {{sin(t), cos(t)} : t \in TreesOfSize(s - 1)}
         \cup UNION {UNION {{sum(l, r), product(l, r), power(l, r)} :
                            l \in TreesOfSize(i), r \in TreesOfSize(s - 1 - i)} :
                     i \in 1 .. (s - 2)}

NoBindings == [nm \in {} |-> F(0)]

\* The binding contexts over which the claims about evaluation quantify.
Bindings == UNION {[D -> {F(i) : i \in Lits}] : D \in SUBSET Names}

Init ==
    /\ e \in Leaves
    /\ vals = NoBindings
    /\ op = "init"
    /\ a1 = Nil
    /\ a2 = Nil
    /\ ret = Nil

\* A builder call whose result the client keeps.
Build(name, x, y, r) ==
    /\ Size(r) <= MaxSize
    /\ e' = r
    /\ op' = name
    /\ a1' = x
    /\ a2' = y
    /\ ret' = r
    /\ UNCHANGED vals

\* A method call on e; the tree and the bindings stay as they are.
Query(name, y, r) ==
    /\ op' = name
    /\ a1' = e
    /\ a2' = y
    /\ ret' = r
    /\ UNCHANGED <<e, vals>>

\* The operands a binary builder can take with e within MaxSize nodes.
Operands(extra) == UNION {TreesOfSize(s) : s \in 1 .. (MaxSize - Size(e) - extra)}

Negate == Build("negate", e, Nil, negate(e))

Invert == Build("invert", e, Nil, invert(e))

Add == \E o \in Operands(1) : Build("add", e, o, add(e, o))

Sub == \E o \in Operands(3) : Build("sub", e, o, sub(e, o))

Mul == \E o \in Operands(1) : Build("mul", e, o, mul(e, o))

Div == \E o \in Operands(3) : Build("div", e, o, div(e, o))

PowB == \E o \in Operands(1) : Build("pow", e, o, pow(e, o))

\* The struct literals sin{e} and cos{e} of part_000.
MkSin == Build("sin", e, Nil, sin(e))

MkCos == Build("cos", e, Nil, cos(e))

Derivative == \E nm \in Names : Query("derivative", variable(nm), derivative(e, variable(nm)))

Simplify == IsArith(e) /\ Query("simplify", Nil, simplify(e))

\* e.derivative(v).simplify(), as main of symbolic.go computes its gradients.
Gradient ==
    /\ IsArith(e)
    /\ \E nm \in Names :
          Query("gradient", variable(nm), simplify(derivative(e, variable(nm))))

Render == Query("String", Nil, String(e))

RenderLower == Query("string", Nil, string(e))

Evaluate == Query("evaluate", Nil, evaluate(e, vals))

Next ==
    \/ Negate \/ Invert \/ Add \/ Sub \/ Mul \/ Div \/ PowB \/ MkSin \/ MkCos
    \/ Derivative \/ Simplify \/ Gradient \/ Render \/ RenderLower \/ Evaluate

Spec == Init /\ [][Next]_vars

(***************************************************************************)
(* The numeric client: it holds a small tree, assigns bindings and         *)
(* evaluates the tree and its derivatives, as the main functions do.       *)
(***************************************************************************)
NumTrees ==
    {pow(variable("x"), constant(F(n))) : n \in 1 .. MaxN}
    \cup UNION {TreesOfSize(s) : s \in 1 .. 3}

NumInit ==
    /\ e \in NumTrees
    /\ vals = NoBindings
    /\ op = "init"
    /\ a1 = Nil
    /\ a2 = Nil
    /\ ret = Nil

\* vals[name] = c: the client sets a binding.
Assign ==
    \E nm \in Names, c \in (-MaxC) .. MaxC :
        /\ vals' = [k \in DOMAIN vals \cup {nm} |-> IF k = nm THEN F(c) ELSE vals[k]]
        /\ op' = "assign"
        /\ a1' = variable(nm)
        /\ a2' = constant(F(c))
        /\ ret' = Nil
        /\ UNCHANGED e

\* gm := e.derivative(v); gm.evaluate(vals), as main of part_000 does.
GradEval ==
    \E nm \in Names :
        Query("gradeval", variable(nm), evaluate(derivative(e, variable(nm)), vals))

NumNext == Assign \/ Evaluate \/ GradEval

NumSpec == NumInit /\ [][NumNext]_vars

(***************************************************************************)
(* Properties.                                                             *)
(***************************************************************************)
\* Every value an arithmetic tree of the model evaluates to is computed
\* exactly: none is Unrepresented.
RECURSIVE Subtrees(_)
Subtrees(ex) ==
    {ex} \cup (IF ex.kind \in Binary THEN Subtrees(Left(ex)) \cup Subtrees(Right(ex))
               ELSE IF ex.kind \in Unary THEN Subtrees(Left(ex))
               ELSE {})

AllComputed ==
    IsArith(e) =>
        \A b \in Bindings :
            /\ \A t \in Subtrees(e) : IsRational(evaluate(t, b))
            /\ \A t \in Subtrees(simplify(e)) : IsRational(evaluate(t, b))

NumAllComputed ==
    IsArith(e) =>
        \A nm \in Names :
            \A t \in Subtrees(e) \cup Subtrees(derivative(e, variable(nm))) :
                IsRational(evaluate(t, vals))

\* Two results are the same number: equal under ==, or both NaN.
SameNumber(v, w) == FloatEq(v, w) \/ (IsNaN(v) /\ IsNaN(w))

\* C1 as stated: simplify preserves the value of every arithmetic tree under
\* every binding context.
C1_SimplifySound ==
    op = "simplify" =>
        \A b \in Bindings : SameNumber(evaluate(ret, b), evaluate(a1, b))

\* Every subexpression of ex has a finite value under b.
AllFinite(ex, b) == \A t \in Subtrees(ex) : IsFinite(evaluate(t, b))

\* No Power subexpression of ex whose base simplifies to Constant 0 has an
\* exponent that is 0 under b without simplifying to Constant 0.
NoHiddenZeroExponent(ex, b) ==
    \A t \in Subtrees(ex) :
        (/\ t.kind = "power"
         /\ InterfaceEq(simplify(t.base), ZERO)
         /\ IsZero(evaluate(t.exponent, b)))
        => InterfaceEq(simplify(t.exponent), ZERO)

\* C1 amended: simplify preserves the value of an arithmetic tree under every
\* binding context in which all its subexpressions are finite and no Power
\* with a base that simplifies to Constant 0 has an exponent that evaluates
\* to 0 without simplifying to Constant 0.
C1_SimplifySoundWhereFinite ==
    op = "simplify" =>
        \A b \in Bindings :
            (AllFinite(a1, b) /\ NoHiddenZeroExponent(a1, b))
            => FloatEq(evaluate(ret, b), evaluate(a1, b))

\* A Power with base 0 and a variable exponent collapsed to 0, under a binding
\* that meets the conditions of the amended claim.
C1_Witness ==
    /\ op = "simplify"
    /\ a1.kind = "power"
    /\ a1.exponent.kind = "variable"
    /\ ret = ZERO
    /\ \E b \in Bindings : AllFinite(a1, b) /\ NoHiddenZeroExponent(a1, b)

\* C2: every output of simplify is a fixed point of simplify, and renders as
\* its own simplification does.
C2_SimplifyIdempotent ==
    op = "simplify" =>
        /\ simplify(ret) = ret
        /\ String(simplify(ret)) = String(ret)

\* simplify rewrote a tree into a smaller composite tree.
C2_Witness ==
    /\ op = "simplify"
    /\ ret # a1
    /\ ret.kind \in Binary

\* The rule table of differentiation, as the claim words it.
RECURSIVE RuleDerivative(_, _)
RuleDerivative(t, nm) ==
    LET Const(i) == [kind |-> "constant", value |-> F(i)]
        Sum(x, y) == [kind |-> "sum", a |-> x, b |-> y]
        Product(x, y) == [kind |-> "product", a |-> x, b |-> y]
        Power(x, y) == [kind |-> "power", base |-> x, exponent |-> y]
    IN  CASE t.kind = "constant" -> Const(0)
          [] t.kind = "variable" -> IF t.name = nm THEN Const(1) ELSE Const(0)
          [] t.kind = "sum" -> Sum(RuleDerivative(t.a, nm), RuleDerivative(t.b, nm))
          [] t.kind = "product" ->
                Sum(Product(RuleDerivative(t.a, nm), t.b),
                    Product(t.a, RuleDerivative(t.b, nm)))
          [] t.kind = "power" ->
                Product(t.exponent,
                        Product(RuleDerivative(t.base, nm),
                                Power(t.base, Sum(t.exponent, Const(-1)))))
          [] t.kind = "sin" ->
                Product(RuleDerivative(t.value, nm), [kind |-> "cos", value |-> t.value])
          [] t.kind = "cos" ->
                Product(Product(RuleDerivative(t.value, nm), Const(-1)),
                        [kind |-> "sin", value |-> t.value])

\* C3: derivative is defined on every tree of the seven variants and returns
\* the tree the rule table gives.
C3_DerivativeRules ==
    op = "derivative" => ret = RuleDerivative(a1, a2.name)

\* A Power whose exponent is the variable of differentiation, under a Cos.
C3_Witness ==
    /\ op = "derivative"
    /\ a1.kind = "cos"
    /\ a1.value.kind = "power"
    /\ a1.value.exponent = a2

\* Rendering as the claim words it: no blank around the operator.
RECURSIVE ClaimedRender(_)
ClaimedRender(t) ==
    CASE t.kind = "constant" -> FormatFloat(t.value)
      [] t.kind = "variable" -> t.name
      [] t.kind = "sum" -> "(" \o ClaimedRender(t.a) \o "+" \o ClaimedRender(t.b) \o ")"
      [] t.kind = "product" -> "(" \o ClaimedRender(t.a) \o "*" \o ClaimedRender(t.b) \o ")"
      [] t.kind = "power" -> ClaimedRender(t.base) \o "^" \o ClaimedRender(t.exponent)

\* C6 as stated: String renders Sum as "(a+b)", Product as "(a*b)" and Power
\* as "base^exponent", operands rendered by the same rules.
C6_RenderNoBlanks ==
    (op = "String" /\ IsArith(a1)) => ret = ClaimedRender(a1)

\* Rendering with one blank on each side of + and *.
RECURSIVE BlankRender(_)
BlankRender(t) ==
    CASE t.kind = "constant" -> FormatFloat(t.value)
      [] t.kind = "variable" -> t.name
      [] t.kind = "sum" -> "(" \o BlankRender(t.a) \o " + " \o BlankRender(t.b) \o ")"
      [] t.kind = "product" -> "(" \o BlankRender(t.a) \o " * " \o BlankRender(t.b) \o ")"
      [] t.kind = "power" -> BlankRender(t.base) \o "^" \o BlankRender(t.exponent)

\* C6 amended: String renders Sum as "(a + b)" and Product as "(a * b)", with
\* one blank on each side of the operator, and Power as "base^exponent",
\* operands rendered by the same rules.
C6_RenderWithBlanks ==
    (op = "String" /\ IsArith(a1)) => ret = BlankRender(a1)

\* A Sum of a Product and a constant was rendered.
C6_Witness ==
    /\ op = "String"
    /\ a1.kind = "sum"
    /\ a1.a.kind = "product"
    /\ a1.b.kind = "constant"
    /\ ret = BlankRender(a1)

\* C7: each builder returns exactly the node the claim names, its operands
\* unchanged.
C7_BuildersExact ==
    LET MinusOne == [kind |-> "constant", value |-> F(-1)] IN
    /\ op = "sub" =>
          ret = [kind |-> "sum", a |-> a1,
                 b |-> [kind |-> "product", a |-> a2, b |-> MinusOne]]
    /\ op = "div" =>
          ret = [kind |-> "product", a |-> a1,
                 b |-> [kind |-> "power", base |-> a2, exponent |-> MinusOne]]
    /\ op = "negate" => ret = [kind |-> "product", a |-> a1, b |-> MinusOne]
    /\ op = "invert" => ret = [kind |-> "power", base |-> a1, exponent |-> MinusOne]
    /\ op = "add" => ret = [kind |-> "sum", a |-> a1, b |-> a2]
    /\ op = "mul" => ret = [kind |-> "product", a |-> a1, b |-> a2]
    /\ op = "pow" => ret = [kind |-> "power", base |-> a1, exponent |-> a2]

\* div was called with the constant 0 as dividend and the constant 1 as
\* divisor.
C7_Witness ==
    /\ op = "div"
    /\ a1 = [kind |-> "constant", value |-> F(0)]
    /\ a2 = [kind |-> "constant", value |-> F(1)]

IsConstantOf(t, i) == t.kind = "constant" /\ FloatEq(t.value, F(i))

\* C8: simplify of a Power simplifies both children and applies the first
\* rule that matches: exponent 0, exponent 1, base 0 or 1, both constants,
\* none.
C8_PowerRuleOrder ==
    (op = "simplify" /\ a1.kind = "power") =>
        LET sb == simplify(a1.base)
            se == simplify(a1.exponent)
        IN  /\ IsConstantOf(se, 0) => ret = [kind |-> "constant", value |-> F(1)]
            /\ (~IsConstantOf(se, 0) /\ IsConstantOf(se, 1)) => ret = sb
            /\ (/\ ~IsConstantOf(se, 0) /\ ~IsConstantOf(se, 1)
                /\ (IsConstantOf(sb, 0) \/ IsConstantOf(sb, 1))) => ret = sb
            /\ (/\ ~IsConstantOf(se, 0) /\ ~IsConstantOf(se, 1)
                /\ ~IsConstantOf(sb, 0) /\ ~IsConstantOf(sb, 1)) =>
                   IF sb.kind = "constant" /\ se.kind = "constant"
                   THEN ret = [kind |-> "constant", value |-> Pow(sb.value, se.value)]
                   ELSE ret = [kind |-> "power", base |-> sb, exponent |-> se]

\* A Power whose base is a composite tree that simplifies to Constant 0 and
\* whose exponent is Constant 0 was simplified to Constant 1.
C8_Witness ==
    /\ op = "simplify"
    /\ a1.kind = "power"
    /\ a1.base.kind \in Binary
    /\ IsConstantOf(simplify(a1.base), 0)
    /\ IsConstantOf(simplify(a1.exponent), 0)
    /\ ret = ONE

\* No node of t is one a rewrite rule of simplify would remove.
Reduced(t) ==
    \A u \in Subtrees(t) :
        /\ u.kind = "sum" => ~IsConstantOf(u.a, 0) /\ ~IsConstantOf(u.b, 0)
        /\ u.kind = "product" =>
              /\ ~IsConstantOf(u.a, 0) /\ ~IsConstantOf(u.b, 0)
              /\ ~IsConstantOf(u.a, 1) /\ ~IsConstantOf(u.b, 1)
        /\ u.kind = "power" =>
              /\ ~IsConstantOf(u.exponent, 0) /\ ~IsConstantOf(u.exponent, 1)
              /\ ~IsConstantOf(u.base, 0) /\ ~IsConstantOf(u.base, 1)
        /\ u.kind \in Binary => ~(Left(u).kind = "constant" /\ Right(u).kind = "constant")

\* C9: the result of simplify has no Sum with a Constant 0 operand, no Product
\* with a Constant 0 or 1 operand, no Power with exponent or base Constant 0 or
\* 1, no node with two Constant operands, and no more nodes than the input.
C9_SimplifiedNormalForm ==
    op = "simplify" => Reduced(ret) /\ Size(ret) <= Size(a1)

\* simplify removed nodes and left a composite tree.
C9_Witness ==
    /\ op = "simplify"
    /\ ret.kind \in Binary
    /\ Size(ret) < Size(a1)

Occurs(nm, t) == \E u \in Subtrees(t) : u.kind = "variable" /\ u.name = nm

\* C10: the simplified derivative of an arithmetic tree in which the variable
\* of differentiation does not occur is the leaf Constant 0.
C10_FreeDerivativeVanishes ==
    (op = "gradient" /\ ~Occurs(a2.name, a1)) =>
        ret = [kind |-> "constant", value |-> F(0)]

\* The gradient of a Power over another variable, with respect to a variable
\* that does not occur in it.
C10_Witness ==
    /\ op = "gradient"
    /\ a1.kind = "power"
    /\ a1.base.kind = "product"
    /\ a1.exponent.kind = "variable"
    /\ ~Occurs(a2.name, a1)
    /\ ret = zero

\* c^k by repeated multiplication.
RECURSIVE Times(_, _)
Times(c, k) == IF k = 0 THEN 1 ELSE c * Times(c, k - 1)

\* C4: the derivative of Power(x, n) with respect to x, for an integer
\* constant n >= 1, evaluates at x = c to n * c^(n-1).
C4_PowerRuleValue ==
    (/\ op = "gradeval"
     /\ a1.kind = "power"
     /\ a1.base = variable("x")
     /\ a1.exponent.kind = "constant"
     /\ IsInteger(a1.exponent.value) /\ a1.exponent.value.n >= 1
     /\ a2 = variable("x")
     /\ "x" \in DOMAIN vals)
    => LET n == a1.exponent.value.n
           c == vals["x"].n
       IN  FloatEq(ret, F(n * Times(c, n - 1)))

\* The derivative of x^3 evaluated at x = 2 is 12.
C4_Witness ==
    /\ op = "gradeval"
    /\ a1 = power(variable("x"), constant(F(3)))
    /\ a2 = variable("x")
    /\ "x" \in DOMAIN vals
    /\ vals["x"] = F(2)
    /\ ret = F(12)

\* C5: evaluating a Variable whose name is not bound returns 0, and no
\* evaluation changes the binding context.
C5_UnboundIsZero ==
    [][op' \in {"evaluate", "gradeval"} =>
          /\ vals' = vals
          /\ (op' = "evaluate" /\ e.kind = "variable" /\ e.name \notin DOMAIN vals)
                => ret' = F(0)]_vars

\* An unbound variable was evaluated to 0 while another name was bound.
C5_Witness ==
    /\ op = "evaluate"
    /\ a1.kind = "variable"
    /\ a1.name \notin DOMAIN vals
    /\ DOMAIN vals # {}
    /\ ret = F(0)

====
